---- MODULE Spec2Model ----
(***************************************************************************)
(* Activity monitoring engine of src/walletTracker.ts: the burst           *)
(* classifier (isSpamActivity) driven by the loop body of                  *)
(* monitorWalletBatch, the key-rotated rate limiter (rateLimitedDelay,     *)
(* getNextApiKey) and the resilient fetcher (fetchTransactions).           *)
(***************************************************************************)
EXTENDS Integers, Sequences, FiniteSets, TLC

VARIABLES
    walletStates,       \* walletStates: Record<string, WalletState>, a partial map
    now,                \* Math.floor(Date.now() / 1000), seconds
    notifications,      \* per address, what sendDiscordNotification was handed, in order
    lastCall,           \* the latest isSpamActivity call: its address, result and return statement
    clock,              \* Date.now(), milliseconds
    numKeys,            \* API_KEYS.length
    currentApiKeyIndex, \* index of the key getNextApiKey returns next
    lastApiCalls,       \* lastApiCalls[k]: the timestamp rateLimitedDelay stored for key k
    tasks,              \* the fetchTransactions calls in progress, one record each
    keyUse,             \* per key, the times of the outbound calls made with it, in order
    ticks               \* the runs of the setInterval callback, one record each

clsVars == <<walletStates, now, notifications, lastCall, ticks>>

netVars == <<clock, numKeys, currentApiKeyIndex, lastApiCalls, tasks, keyUse>>

vars == <<walletStates, now, notifications, lastCall,
          clock, numKeys, currentApiKeyIndex, lastApiCalls, tasks, keyUse, ticks>>

----------------------------------------------------------------------------
(* Bounds of the model *)

\* number of distinct transaction hashes the upstream can report
NumHashes == 4
\* longest transaction list the upstream returns for the classifier
MaxTxs == 3
\* value of the seconds clock when the process starts
StartTime == 30
\* the seconds clock stops advancing here
MaxNow == 90

\* value of the millisecond clock when the process starts
StartMs == 50
\* milliseconds that pass in one step while requests are in flight
StepMs == 25
\* the millisecond clock stops stepping here (timers still expire later)
MaxClock == 100
\* largest number of API keys configured
MaxKeys == 2
\* concurrent fetch tasks of the rate limiter specification
NumTasks == 3
\* longest list an upstream response carries
MaxPayload == 2
\* runs of the setInterval callback
NumTicks == 2

(* Program constants *)

\* walletTracker.ts:86
MAX_RETRIES == 3
\* walletTracker.ts:87
RETRY_DELAY == 1000
\* walletTracker.ts:88
RATE_LIMIT_DELAY == 50

\* walletTracker.ts:137  transactions.slice(0, 3)
RECENT_COUNT == 3
\* walletTracker.ts:153  now - state.lastStateChangeTime < 30
HYSTERESIS_SECONDS == 30
\* walletTracker.ts:162  blocksSinceLastTx > 20
STOP_BLOCKS == 20
\* walletTracker.ts:179,181  gap <= 3, blocksSinceLastTx <= 3
GAP_BLOCKS == 3

----------------------------------------------------------------------------
(* Inputs: tracked addresses, upstream transactions, chain heights *)

\* keys of NORMALIZED_WALLETS (lowercased addresses)
Addresses == {"0xaa", "0xbb"}

Hashes == 1..NumHashes

\* block number of the transaction with hash h: 100, 101, 102, 105, 109, ...
TxBlock(h) == IF h <= 3 THEN 99 + h ELSE 105 + 4 * (h - 4)

Tx(h) == [hash |-> h, blockNumber |-> TxBlock(h)]

\* chain heights getCurrentBlockNumber can return
Heights == {103, 105, 106, 125, 126}

\* seconds the clock can advance in one step
ClockSteps == {HYSTERESIS_SECONDS - 1, HYSTERESIS_SECONDS}

RECURSIVE DescLists(_, _)
\* the newest-first (sort: 'desc') lists of at most n transactions with hash <= top
DescLists(top, n) ==
    IF n = 0 \/ top = 0 THEN {<< >>}
    ELSE {<< >>} \cup
         UNION {{<<Tx(h)>> \o rest : rest \in DescLists(h - 1, n - 1)} : h \in 1..top}

\* the lists fetchTransactions can resolve to
Windows == DescLists(NumHashes, MaxTxs)

----------------------------------------------------------------------------
(* isSpamActivity *)

Slice3(s) == SubSeq(s, 1, IF Len(s) < RECENT_COUNT THEN Len(s) ELSE RECENT_COUNT)

RECURSIVE InsertDesc(_, _)
\* x placed into the block-descending list s after every element it does not precede
\* (Array.prototype.sort with (a, b) => b.block - a.block is stable)
InsertDesc(x, s) ==
    IF s = << >> THEN <<x>>
    ELSE IF Head(s).block >= x.block THEN <<Head(s)>> \o InsertDesc(x, Tail(s))
         ELSE <<x>> \o s

RECURSIVE SortDesc(_)
SortDesc(s) ==
    IF s = << >> THEN << >>
    ELSE InsertDesc(Head(s), SortDesc(Tail(s)))

\* lines 136-143: slice, map to {block, hash}, sort by block descending
RecentTxs(transactions) ==
    SortDesc([i \in 1..Len(Slice3(transactions)) |->
                [block |-> Slice3(transactions)[i].blockNumber,
                 hash  |-> Slice3(transactions)[i].hash]])

\* lines 124-129 (hashes are 1..NumHashes; 0 stands for the empty string '')
InitialWalletState ==
    [isSpamming |-> FALSE, lastTxBlock |-> 0,
     lastNotifiedTxHash |-> 0, lastStateChangeTime |-> 0]

\* return { shouldNotify: false, type: null } at the return statement named by exit
NoChange(state, exit) ==
    [state |-> state, shouldNotify |-> FALSE, type |-> "null", exit |-> exit]

\* the de-duplication check left out
AlreadyNotified_Never(state, top) == FALSE

\* line 148
AlreadyNotified(state, top) == top.hash = state.lastNotifiedTxHash

\* the hysteresis check left out
InHysteresis_Never(state, t) == FALSE

\* the hysteresis window one second short
InHysteresis_Short(state, t) == t - state.lastStateChangeTime < HYSTERESIS_SECONDS - 1

\* line 153
InHysteresis(state, t) == t - state.lastStateChangeTime < HYSTERESIS_SECONDS

\* the quiet period measured against the wrong threshold
StopCondition_Late(top, currentBlock) == currentBlock - top.block > STOP_BLOCKS + GAP_BLOCKS

\* line 162
StopCondition(top, currentBlock) == currentBlock - top.block > STOP_BLOCKS

\* the recency test of line 181 left out
StartCondition_NoRecency(recentTxs, currentBlock) ==
    /\ Len(recentTxs) >= 3
    /\ recentTxs[1].block - recentTxs[2].block <= GAP_BLOCKS
    /\ recentTxs[2].block - recentTxs[3].block <= GAP_BLOCKS

\* lines 173-181
StartCondition(recentTxs, currentBlock) ==
    /\ Len(recentTxs) >= 3
    /\ recentTxs[1].block - recentTxs[2].block <= GAP_BLOCKS
    /\ recentTxs[2].block - recentTxs[3].block <= GAP_BLOCKS
    /\ currentBlock - recentTxs[1].block <= GAP_BLOCKS

\* the transition that forgets to flip isSpamming
Transition_KeepFlag(state, top, t, spamming, type) ==
    [state |-> [isSpamming |-> state.isSpamming,
                lastNotifiedTxHash |-> top.hash,
                lastTxBlock |-> top.block,
                lastStateChangeTime |-> t],
     shouldNotify |-> TRUE, type |-> type, exit |-> type]

\* lines 163-167 and 182-186
Transition(state, top, t, spamming, type) ==
    [state |-> [isSpamming |-> spamming,
                lastNotifiedTxHash |-> top.hash,
                lastTxBlock |-> top.block,
                lastStateChangeTime |-> t],
     shouldNotify |-> TRUE, type |-> type, exit |-> type]

\* lines 145-192, on the state the lazy creation of lines 123-130 left
IsSpamActivity(state, transactions, currentBlock, t) ==
    LET recentTxs == RecentTxs(transactions) IN
    IF Len(recentTxs) = 0 THEN NoChange(state, "empty")
    ELSE IF AlreadyNotified(state, recentTxs[1]) THEN NoChange(state, "notified")
    ELSE IF InHysteresis(state, t) THEN NoChange(state, "hysteresis")
    ELSE IF state.isSpamming
         THEN IF StopCondition(recentTxs[1], currentBlock)
              THEN Transition(state, recentTxs[1], t, FALSE, "stop")
              ELSE NoChange(state, "spamming")
    ELSE IF StartCondition(recentTxs, currentBlock)
         THEN Transition(state, recentTxs[1], t, TRUE, "start")
    ELSE NoChange([state EXCEPT !.lastTxBlock = recentTxs[1].block], "block")

----------------------------------------------------------------------------
(* fetchTransactions, rateLimitedDelay, getNextApiKey *)

\* String.prototype.toLowerCase on the address spellings of the model
Lower(s) ==
    CASE s = "0xAB" -> "0xab"
      [] s = "0xCD" -> "0xcd"
      [] OTHER -> s

\* the address a task passes to fetchTransactions: a key of NORMALIZED_WALLETS
\* (monitorWalletBatch) or the spelling the user typed (addNewWallet)
TaskAddress(t) == IF t % 2 = 1 THEN "0xab" ELSE "0xAB"

\* response.data.result of the upstream, newest first: to the tracked
\* address in two spellings, and one sent by it to another address
UpstreamTxs ==
    <<[hash |-> 3, to |-> "0xAB"], [hash |-> 2, to |-> "0xCD"], [hash |-> 1, to |-> "0xab"]>>

RECURSIVE SubLists(_, _)
\* the sublists of s of length at most n, order kept
SubLists(s, n) ==
    IF s = << >> \/ n = 0 THEN {<< >>}
    ELSE SubLists(Tail(s), n) \cup {<<Head(s)>> \o r : r \in SubLists(Tail(s), n - 1)}

Payloads == SubLists(UpstreamTxs, MaxPayload)

\* lines 217-219
RecipientFilter(result, address) ==
    SelectSeq(result, LAMBDA tx : Lower(tx.to) = Lower(address))

\* the same delay before every retry
RetryDelay_Flat(retryCount) == RETRY_DELAY

\* line 228
RetryDelay(retryCount) == RETRY_DELAY * (retryCount + 1)

\* one retry too many
MayRetry_OneMore(retryCount) == retryCount <= MAX_RETRIES

\* line 226
MayRetry(retryCount) == retryCount < MAX_RETRIES

\* lines 232-233
Exhausted == [outcome |-> "returned", result |-> << >>]

\* a fetchTransactions call that has not been made yet
IdleTask ==
    [pc |-> "idle", address |-> "", retryCount |-> 0, keyIndex |-> 0, wakeAt |-> 0,
     startedAt |-> 0, doneAt |-> 0, delayed |-> FALSE, key |-> 0, fails |-> 0,
     delays |-> << >>, last |-> "none", response |-> << >>, result |-> << >>,
     outcome |-> "pending"]

\* lines 107-115 up to the first suspension: the key index is read, and either
\* the caller is put to sleep or the timestamp of that index is stored
EnterRateLimitedDelay(t, task) ==
    LET keyIndex == currentApiKeyIndex
        timeSinceLastCall == clock - lastApiCalls[keyIndex]
    IN  IF timeSinceLastCall < RATE_LIMIT_DELAY
        THEN /\ tasks' = [tasks EXCEPT ![t] =
                    [task EXCEPT !.pc = "rlSleep", !.keyIndex = keyIndex,
                                 !.wakeAt = clock + (RATE_LIMIT_DELAY - timeSinceLastCall),
                                 !.delayed = TRUE]]
             /\ UNCHANGED lastApiCalls
        ELSE /\ tasks' = [tasks EXCEPT ![t] =
                    [task EXCEPT !.pc = "rlDone", !.keyIndex = keyIndex]]
             /\ lastApiCalls' = [lastApiCalls EXCEPT ![keyIndex] = clock]

\* line 196-200: fetchTransactions(address) is called and runs into rateLimitedDelay
Begin(t) ==
    /\ tasks[t].pc = "idle"
    /\ EnterRateLimitedDelay(t, [tasks[t] EXCEPT !.address = TaskAddress(t),
                                                 !.startedAt = clock])
    /\ UNCHANGED <<clock, numKeys, currentApiKeyIndex, keyUse>>
    /\ UNCHANGED clsVars

\* lines 112-115: the delay is over, the timestamp of the index read earlier is stored
RateLimitWake(t) ==
    /\ tasks[t].pc = "rlSleep"
    /\ clock >= tasks[t].wakeAt
    /\ lastApiCalls' = [lastApiCalls EXCEPT ![tasks[t].keyIndex] = clock]
    /\ tasks' = [tasks EXCEPT ![t].pc = "rlDone"]
    /\ UNCHANGED <<clock, numKeys, currentApiKeyIndex, keyUse>>
    /\ UNCHANGED clsVars

\* lines 99-103 and 202-214: getNextApiKey, and the request goes out with that key
IssueRequest(t) ==
    /\ tasks[t].pc = "rlDone"
    /\ tasks' = [tasks EXCEPT ![t].pc = "inflight", ![t].key = currentApiKeyIndex]
    /\ keyUse' = [keyUse EXCEPT ![currentApiKeyIndex] = Append(@, clock)]
    /\ currentApiKeyIndex' = (currentApiKeyIndex + 1) % numKeys
    /\ UNCHANGED <<clock, numKeys, lastApiCalls>>
    /\ UNCHANGED clsVars

\* lines 216-219: status '1' with a result, the filtered list is returned
RespondOk(t, payload) ==
    /\ tasks[t].pc = "inflight"
    /\ tasks' = [tasks EXCEPT ![t] =
            [@ EXCEPT !.pc = "done", !.last = "ok", !.response = payload,
                      !.result = RecipientFilter(payload, tasks[t].address),
                      !.outcome = "returned", !.doneAt = clock]]
    /\ UNCHANGED <<clock, numKeys, currentApiKeyIndex, lastApiCalls, keyUse>>
    /\ UNCHANGED clsVars

\* lines 222-223: a response without status '1' or without result
RespondNoData(t) ==
    /\ tasks[t].pc = "inflight"
    /\ tasks' = [tasks EXCEPT ![t] =
            [@ EXCEPT !.pc = "done", !.last = "nodata", !.result = << >>,
                      !.outcome = "returned", !.doneAt = clock]]
    /\ UNCHANGED <<clock, numKeys, currentApiKeyIndex, lastApiCalls, keyUse>>
    /\ UNCHANGED clsVars

\* lines 225-234: the request failed; a retry is scheduled or the call gives up
RespondError(t) ==
    /\ tasks[t].pc = "inflight"
    /\ tasks' = [tasks EXCEPT ![t] =
            IF MayRetry(@.retryCount)
            THEN [@ EXCEPT !.pc = "backoff", !.last = "error", !.fails = @ + 1,
                           !.wakeAt = clock + RetryDelay(tasks[t].retryCount),
                           !.delays = Append(@, RetryDelay(tasks[t].retryCount))]
            ELSE [@ EXCEPT !.pc = "done", !.last = "error", !.fails = @ + 1,
                           !.result = Exhausted.result, !.outcome = Exhausted.outcome,
                           !.doneAt = clock]]
    /\ UNCHANGED <<clock, numKeys, currentApiKeyIndex, lastApiCalls, keyUse>>
    /\ UNCHANGED clsVars

\* lines 228-229 and 199-200: the backoff is over, fetchTransactions calls itself
\* with retryCount + 1 and runs into rateLimitedDelay again
RetryWake(t) ==
    /\ tasks[t].pc = "backoff"
    /\ clock >= tasks[t].wakeAt
    /\ EnterRateLimitedDelay(t, [tasks[t] EXCEPT !.retryCount = @ + 1])
    /\ UNCHANGED <<clock, numKeys, currentApiKeyIndex, keyUse>>
    /\ UNCHANGED clsVars

\* the deadlines of the timers that have not expired
PendingTimers ==
    {tasks[t].wakeAt : t \in {u \in DOMAIN tasks :
                                 /\ tasks[u].pc \in {"rlSleep", "backoff"}
                                 /\ tasks[u].wakeAt > clock}}

\* a task whose await of rateLimitedDelay has resolved: its continuation runs
\* before the event loop lets any time pass
ReadyToResume == \E t \in DOMAIN tasks : tasks[t].pc = "rlDone"

\* line 238: time passes until the earliest setTimeout expires
TimerExpires ==
    /\ ~ReadyToResume
    /\ PendingTimers # {}
    /\ clock' = CHOOSE d \in PendingTimers : \A e \in PendingTimers : d <= e
    /\ UNCHANGED <<numKeys, currentApiKeyIndex, lastApiCalls, tasks, keyUse>>
    /\ UNCHANGED clsVars

\* time passes while requests are in flight or no task is running
Elapse ==
    /\ ~ReadyToResume
    /\ clock + StepMs <= MaxClock
    /\ clock' = clock + StepMs
    /\ UNCHANGED <<numKeys, currentApiKeyIndex, lastApiCalls, tasks, keyUse>>
    /\ UNCHANGED clsVars


----------------------------------------------------------------------------
(* The classifier driven by monitorWalletBatch *)

NoCall == [address |-> "", type |-> "null", exit |-> "none"]

\* lines 54-76: nothing classified yet
ClassifierInit ==
    /\ walletStates = << >>
    /\ now = StartTime
    /\ notifications = [a \in Addresses |-> << >>]
    /\ lastCall = NoCall
    /\ ticks = << >>

\* lines 94-96 with n keys configured and no fetch in progress; with warm, key 0
\* has just been used by the getCurrentBlockNumber call that precedes the
\* fetches of a tick (lines 286, 320-326)
NetInit(n, nTasks, warm) ==
    /\ clock = StartMs
    /\ numKeys = n
    /\ currentApiKeyIndex = IF warm THEN 1 % n ELSE 0
    /\ lastApiCalls = [k \in 0..(n - 1) |-> IF warm /\ k = 0 THEN StartMs - StepMs ELSE 0]
    /\ tasks = [t \in 1..nTasks |-> IdleTask]
    /\ keyUse = [k \in 0..(n - 1) |->
                    IF warm /\ k = 0 THEN <<StartMs - StepMs>> ELSE << >>]

Init ==
    /\ ClassifierInit
    /\ NetInit(1, 0, FALSE)

\* the seconds clock moves forward
AdvanceClock ==
    /\ \E d \in ClockSteps :
          /\ now + d <= MaxNow
          /\ now' = now + d
    /\ UNCHANGED <<walletStates, notifications, lastCall, ticks>>
    /\ UNCHANGED netVars

\* a WalletState made anew on every call
EntryState_Fresh(address) == InitialWalletState

\* lines 123-132: the state isSpamActivity works on
EntryState(address) ==
    IF address \in DOMAIN walletStates THEN walletStates[address] ELSE InitialWalletState

\* the oldest transaction of the list handed to the sink
Notification_Oldest(address, transactions, type) ==
    [hash |-> transactions[Len(transactions)].hash,
     message |-> IF type = "start" THEN "Started" ELSE "Stopped"]

\* lines 301-307: the message for the transition and the transaction handed to the sink
Notification(address, transactions, type) ==
    [hash |-> transactions[1].hash,
     message |-> IF type = "start" THEN "Started" ELSE "Stopped"]

\* line 299: the call of isSpamActivity by monitorWalletBatch
Classify(address, transactions, currentBlock) ==
    IsSpamActivity(EntryState(address), transactions, currentBlock, now)

\* lines 123-130 and the assignments to state.*: walletStates after the call
WalletStatesAfter(address, transactions, currentBlock) ==
    [a \in DOMAIN walletStates \cup {address} |->
        IF a = address THEN Classify(address, transactions, currentBlock).state
        ELSE walletStates[a]]

\* lines 301-308: what the sink has been handed after the call
NotificationsAfter(address, transactions, currentBlock) ==
    LET r == Classify(address, transactions, currentBlock) IN
    IF r.shouldNotify /\ r.type # "null"
    THEN [notifications EXCEPT
             ![address] = Append(@, Notification(address, transactions, r.type))]
    ELSE notifications

\* lines 293-308: one iteration of the loop of monitorWalletBatch
MonitorWallet(address, transactions, currentBlock) ==
    /\ Len(transactions) # 0
    /\ walletStates' = WalletStatesAfter(address, transactions, currentBlock)
    /\ notifications' = NotificationsAfter(address, transactions, currentBlock)
    /\ lastCall' = LET r == Classify(address, transactions, currentBlock) IN
                   [address |-> address, type |-> r.type, exit |-> r.exit]
    /\ UNCHANGED <<now, ticks>>
    /\ UNCHANGED netVars

Monitor ==
    \E address \in Addresses, transactions \in Windows, currentBlock \in Heights :
        MonitorWallet(address, transactions, currentBlock)

Next == AdvanceClock \/ Monitor

Spec == Init /\ [][Next]_vars

\* the rate limiter under concurrent fetches that the upstream answers
LimiterInit ==
    /\ ClassifierInit
    /\ \E n \in 1..MaxKeys : NetInit(n, NumTasks, FALSE)

LimiterNext ==
    \/ \E t \in DOMAIN tasks : Begin(t)
    \/ \E t \in DOMAIN tasks : RateLimitWake(t)
    \/ \E t \in DOMAIN tasks : IssueRequest(t)
    \/ \E t \in DOMAIN tasks : RespondOk(t, UpstreamTxs)
    \/ TimerExpires
    \/ Elapse

LimiterSpec == LimiterInit /\ [][LimiterNext]_vars

\* one fetchTransactions call against an upstream that may fail
FetchInit ==
    /\ ClassifierInit
    /\ \E n \in 1..MaxKeys, warm \in BOOLEAN : NetInit(n, 1, warm)

FetchNext ==
    \/ \E t \in DOMAIN tasks : Begin(t)
    \/ \E t \in DOMAIN tasks : RateLimitWake(t)
    \/ \E t \in DOMAIN tasks : IssueRequest(t)
    \/ \E t \in DOMAIN tasks, payload \in Payloads : RespondOk(t, payload)
    \/ \E t \in DOMAIN tasks : RespondNoData(t)
    \/ \E t \in DOMAIN tasks : RespondError(t)
    \/ \E t \in DOMAIN tasks : RetryWake(t)
    \/ TimerExpires
    \/ Elapse

\* a continuation that can run is run, a timer that is due fires, and a request
\* that is in flight is answered or fails
FetchSpec == FetchInit /\ [][FetchNext]_vars /\ WF_vars(FetchNext)

----------------------------------------------------------------------------
(* startMonitoring, monitorWalletBatch, getCurrentBlockNumber *)

\* Object.keys(NORMALIZED_WALLETS), line 275
AddressList == <<"0xaa", "0xbb">>

\* parseInt(response.data.result, 16) of line 335
TickHeights == {0, 103, 125}

\* what fetchTransactions resolves to for one address: [] after a failure or
\* without data, else a list newest first
TickWindows == {<< >>, <<Tx(1)>>, <<Tx(3), Tx(2), Tx(1)>>}

\* line 347: the hard-coded floor
FALLBACK_BLOCK == 24000000

\* Math.max() of no arguments is -Infinity; any negative number behaves the
\* same in the test of line 347
NegInfinity == 0 - 1

\* Math.max(...blocks)
MaxOf(blocks) ==
    IF blocks = {} THEN NegInfinity
    ELSE CHOOSE b \in blocks : \A c \in blocks : c <= b

\* lines 343-345
LastKnownBlock(ws) == MaxOf({b \in {ws[a].lastTxBlock : a \in DOMAIN ws} : b > 0})

\* the fallback without the floor
FallbackBlock_NoFloor(ws) == LastKnownBlock(ws)

\* lines 343-347: what getCurrentBlockNumber returns once its retries are exhausted
FallbackBlock(ws) ==
    IF LastKnownBlock(ws) > 0 THEN LastKnownBlock(ws) ELSE FALLBACK_BLOCK

\* a run of the setInterval callback that has not started
IdleTick ==
    [pc |-> "idle", currentBlock |-> 0, source |-> "none", heightCalls |-> 0,
     results |-> [a \in Addresses |-> << >>], next |-> 1,
     classified |-> {}, used |-> {}]

\* every address classified, the empty result included
SkipsAddress_Never(transactions) == FALSE

\* line 297
SkipsAddress(transactions) == Len(transactions) = 0

\* the height read again for each address, the chain having grown meanwhile
HeightFor_Reread(tick, i) == tick.currentBlock + (i - 1)

\* line 299: the currentBlock handed to isSpamActivity for the i-th address
HeightFor(tick, i) == tick.currentBlock

\* the result written over every WalletState there is
Store_All(ws, address, state) == [a \in DOMAIN ws \cup {address} |-> state]

\* lines 123-132 and 163-191: walletStates[address] is the one record written
Store(ws, address, state) ==
    [a \in DOMAIN ws \cup {address} |-> IF a = address THEN state ELSE ws[a]]

RECURSIVE RunLoop(_, _, _, _)
\* lines 293-309 from the i-th address on, up to the await of line 307 or to
\* the end of the loop: the wallet states, the notifications and the tick after it
RunLoop(tick, i, ws, notes) ==
    IF i > Len(AddressList)
    THEN [ws |-> ws, notes |-> notes, tick |-> [tick EXCEPT !.pc = "done", !.next = i]]
    ELSE LET address == AddressList[i]
             transactions == tick.results[address]
             state == IF address \in DOMAIN ws THEN ws[address] ELSE InitialWalletState
             r == IsSpamActivity(state, transactions, HeightFor(tick, i), now)
             ws2 == Store(ws, address, r.state)
             tick2 == [tick EXCEPT !.classified = @ \cup {address},
                                   !.used = @ \cup {HeightFor(tick, i)}]
         IN  IF SkipsAddress(transactions) THEN RunLoop(tick, i + 1, ws, notes)
             ELSE IF r.shouldNotify /\ r.type # "null"
             THEN [ws |-> ws2,
                   notes |-> [notes EXCEPT ![address] =
                                 Append(@, Notification(address, transactions, r.type))],
                   tick |-> [tick2 EXCEPT !.pc = "sending", !.next = i + 1]]
             ELSE RunLoop(tick2, i + 1, ws2, notes)

\* lines 274-278 and 286: the timer fires, whatever earlier runs are doing,
\* and the run asks for the chain height
TimerFires(k) ==
    /\ ticks[k].pc = "idle"
    /\ k > 1 => ticks[k - 1].pc # "idle"
    /\ ticks' = [ticks EXCEPT ![k].pc = "height", ![k].heightCalls = @ + 1]
    /\ UNCHANGED <<walletStates, now, notifications, lastCall>>
    /\ UNCHANGED netVars

\* lines 286-291: the height has come back; 0 ends the run, any other value
\* starts the fetches of all addresses
HeightArrives(k, h, source) ==
    /\ ticks[k].pc = "height"
    /\ ticks' = [ticks EXCEPT ![k].currentBlock = h, ![k].source = source,
                              ![k].pc = IF h = 0 THEN "done" ELSE "fetching"]
    /\ UNCHANGED <<walletStates, now, notifications, lastCall>>
    /\ UNCHANGED netVars

\* line 335
HeightReturns(k) == \E h \in TickHeights : HeightArrives(k, h, "upstream")

\* lines 336-347
HeightExhausted(k) == HeightArrives(k, FallbackBlock(walletStates), "fallback")

\* the loop of lines 293-309 run from i on for the tick
Resume(k, tick, i) ==
    LET r == RunLoop(tick, i, walletStates, notifications)
    IN  /\ walletStates' = r.ws
        /\ notifications' = r.notes
        /\ ticks' = [ticks EXCEPT ![k] = r.tick]
        /\ UNCHANGED <<now, lastCall>>
        /\ UNCHANGED netVars

\* lines 289-293: Promise.all resolves and the loop starts
FetchesReturn(k) ==
    /\ ticks[k].pc = "fetching"
    /\ \E results \in [Addresses -> TickWindows] :
          Resume(k, [ticks[k] EXCEPT !.results = results], 1)

\* lines 257-261 and 307: webhook.send resolves or rejects, the rejection is
\* caught and logged, and the loop goes on either way
SendSettles(k) ==
    /\ ticks[k].pc = "sending"
    /\ \E delivered \in BOOLEAN : Resume(k, ticks[k], ticks[k].next)

\* line 133: the seconds clock read by a later classification is later by
\* the length of the hysteresis window
SecondsPass ==
    /\ now + HYSTERESIS_SECONDS <= MaxNow
    /\ now' = now + HYSTERESIS_SECONDS
    /\ UNCHANGED <<walletStates, notifications, lastCall, ticks>>
    /\ UNCHANGED netVars

TickInit ==
    /\ walletStates = << >>
    /\ now = StartTime
    /\ notifications = [a \in Addresses |-> << >>]
    /\ lastCall = NoCall
    /\ ticks = [k \in 1..NumTicks |-> IdleTick]
    /\ NetInit(1, 0, FALSE)

TickNext ==
    \/ \E k \in DOMAIN ticks : TimerFires(k)
    \/ \E k \in DOMAIN ticks : HeightReturns(k)
    \/ \E k \in DOMAIN ticks : HeightExhausted(k)
    \/ \E k \in DOMAIN ticks : FetchesReturn(k)
    \/ \E k \in DOMAIN ticks : SendSettles(k)
    \/ SecondsPass

TickSpec == TickInit /\ [][TickNext]_vars

\* line 133: Date.now() is the wall clock, which is set back when the system
\* time is corrected
ClockSetBack ==
    /\ now - HYSTERESIS_SECONDS >= StartTime
    /\ now' = now - HYSTERESIS_SECONDS
    /\ UNCHANGED <<walletStates, notifications, lastCall, ticks>>
    /\ UNCHANGED netVars

\* lines 293-308 for the first address of the list
MonitorOne ==
    \E transactions \in Windows, currentBlock \in Heights :
        MonitorWallet(AddressList[1], transactions, currentBlock)

\* the classifier of one address under a wall clock that moves both ways
WallClockNext == SecondsPass \/ ClockSetBack \/ MonitorOne

WallClockSpec == Init /\ [][WallClockNext]_vars

----------------------------------------------------------------------------
(* Properties of the burst classifier *)

NonEmptyWindows == Windows \ {<< >>}

\* the WalletState of address after the call with these arguments
StateAfter(address, transactions, currentBlock) ==
    WalletStatesAfter(address, transactions, currentBlock)[address]

\* the call hands the sink exactly one more notification, for the top transaction
Emits(address, transactions, currentBlock, message) ==
    NotificationsAfter(address, transactions, currentBlock)[address] =
        Append(notifications[address],
               [hash |-> transactions[1].hash, message |-> message])

\* the call hands the sink nothing
EmitsNothing(address, transactions, currentBlock) ==
    NotificationsAfter(address, transactions, currentBlock) = notifications

\* C1: for every address the emitted transitions alternate, beginning with
\* 'start': the odd notifications of an address are Started, the even ones
\* Stopped, so no two of the same type are emitted in a row.
C1_Alternation ==
    \A a \in Addresses :
        \A i \in 1..Len(notifications[a]) :
            notifications[a][i].message = (IF i % 2 = 1 THEN "Started" ELSE "Stopped")

\* an address that went start, stop, start
C1_Witness ==
    \E a \in Addresses :
        /\ Len(notifications[a]) >= 3
        /\ notifications[a][3].message = "Started"

\* C2: over any run, a notification for a given (address, transaction hash,
\* transition type) is emitted at most once.
C2_AtMostOnce ==
    \A a \in Addresses :
        \A i, j \in 1..Len(notifications[a]) :
            i < j => notifications[a][i] # notifications[a][j]

\* the start condition as the claim states it
C3_StartCase(transactions, currentBlock) ==
    /\ Len(transactions) >= 3
    /\ transactions[1].blockNumber - transactions[2].blockNumber <= 3
    /\ transactions[2].blockNumber - transactions[3].blockNumber <= 3
    /\ currentBlock - transactions[1].blockNumber <= 3

\* C3: for an Idle address whose top hash differs from lastNotifiedTxHash and
\* whose last state change is at least 30 s old, a call emits BurstStarted
\* exactly when at least 3 transactions are available, both gaps among the 3
\* most recent are <= 3 and chainHeight - top.block <= 3; when it fires it sets
\* isSpamming, lastNotifiedTxHash = top.hash, lastTxBlock = top.block and
\* lastStateChangeTime = now.
C3_IdleToBursting ==
    \A a \in Addresses, txs \in NonEmptyWindows, h \in Heights :
        LET s == EntryState(a)
            r == Classify(a, txs, h)
        IN  ( /\ ~s.isSpamming
              /\ txs[1].hash # s.lastNotifiedTxHash
              /\ now - s.lastStateChangeTime >= 30 )
            => /\ (r.shouldNotify /\ r.type = "start") <=> C3_StartCase(txs, h)
               /\ Emits(a, txs, h, "Started") <=> C3_StartCase(txs, h)
               /\ C3_StartCase(txs, h) =>
                     StateAfter(a, txs, h) =
                        [isSpamming |-> TRUE,
                         lastNotifiedTxHash |-> txs[1].hash,
                         lastTxBlock |-> txs[1].blockNumber,
                         lastStateChangeTime |-> now]

\* blocks {100,101,102} with no prior state change: the call fired BurstStarted
C3_Witness ==
    /\ lastCall.type = "start"
    /\ lastCall.address \in DOMAIN walletStates
    /\ walletStates[lastCall.address] =
          [isSpamming |-> TRUE, lastNotifiedTxHash |-> 3,
           lastTxBlock |-> 102, lastStateChangeTime |-> StartTime]
    /\ notifications[lastCall.address] = <<[hash |-> 3, message |-> "Started"]>>

\* C4 as claimed: a Bursting address whose top transaction is still the one the
\* burst started on, 30 s after the start and with chainHeight - top.block > 20,
\* emits BurstStopped and becomes Idle.
C4_StopOnSameTop ==
    \A a \in DOMAIN walletStates, txs \in NonEmptyWindows, h \in Heights :
        ( /\ walletStates[a].isSpamming
          /\ now - walletStates[a].lastStateChangeTime >= 30
          /\ txs[1].hash = walletStates[a].lastNotifiedTxHash
          /\ h - txs[1].blockNumber > 20 )
        => /\ Classify(a, txs, h).type = "stop"
           /\ ~StateAfter(a, txs, h).isSpamming

\* C4 as amended: a Bursting address, 30 s after the start, emits BurstStopped
\* and becomes Idle on a call with chainHeight - top.block > 20 whose top
\* transaction is not the one the burst started on; while the top transaction
\* is still that one the call returns NoChange and the address stays Bursting.
C4_StopOnNewTop ==
    \A a \in DOMAIN walletStates, txs \in NonEmptyWindows, h \in Heights :
        ( /\ walletStates[a].isSpamming
          /\ now - walletStates[a].lastStateChangeTime >= 30
          /\ h - txs[1].blockNumber > 20 )
        => IF txs[1].hash # walletStates[a].lastNotifiedTxHash
           THEN /\ Classify(a, txs, h).type = "stop"
                /\ Emits(a, txs, h, "Stopped")
                /\ ~StateAfter(a, txs, h).isSpamming
           ELSE /\ Classify(a, txs, h).type = "null"
                /\ EmitsNothing(a, txs, h)
                /\ StateAfter(a, txs, h).isSpamming

\* a burst was stopped by a call on another top transaction
C4_Witness ==
    /\ lastCall.type = "stop"
    /\ ~walletStates[lastCall.address].isSpamming
    /\ Len(notifications[lastCall.address]) = 2
    /\ notifications[lastCall.address][2].message = "Stopped"
    /\ notifications[lastCall.address][2].hash # notifications[lastCall.address][1].hash

\* C5: while now - lastStateChangeTime < 30 a call returns NoChange for every
\* window and chain height, also for a Bursting address whose stop condition
\* is met, and leaves isSpamming, lastNotifiedTxHash and lastStateChangeTime
\* as they were.
C5_Hysteresis ==
    \A a \in Addresses, txs \in Windows, h \in Heights :
        LET s == EntryState(a)
            r == Classify(a, txs, h)
            t == StateAfter(a, txs, h)
        IN  now - s.lastStateChangeTime < 30
            => /\ ~r.shouldNotify
               /\ r.type = "null"
               /\ EmitsNothing(a, txs, h)
               /\ t.isSpamming = s.isSpamming
               /\ t.lastNotifiedTxHash = s.lastNotifiedTxHash
               /\ t.lastStateChangeTime = s.lastStateChangeTime

\* a call on a Bursting address, less than 30 s after its start, returned at
\* the hysteresis guard
C5_Witness ==
    /\ lastCall.exit = "hysteresis"
    /\ walletStates[lastCall.address].isSpamming
    /\ now - walletStates[lastCall.address].lastStateChangeTime < 30
    /\ now > walletStates[lastCall.address].lastStateChangeTime

\* C6: once a call has fired a transition on top hash h, a further call for
\* the same address whose top hash is still h returns NoChange and emits no
\* second alert, at any chain height and any later time.
C6_Deduplication ==
    \A a \in DOMAIN walletStates, txs \in NonEmptyWindows, h \in Heights :
        ( /\ walletStates[a].lastNotifiedTxHash # 0
          /\ txs[1].hash = walletStates[a].lastNotifiedTxHash )
        => /\ ~Classify(a, txs, h).shouldNotify
           /\ Classify(a, txs, h).type = "null"
           /\ EmitsNothing(a, txs, h)
           /\ StateAfter(a, txs, h) = walletStates[a]

\* a call re-fed the notified top hash after the hysteresis had elapsed and
\* returned at the de-duplication guard
C6_Witness ==
    /\ lastCall.exit = "notified"
    /\ walletStates[lastCall.address].lastNotifiedTxHash # 0
    /\ now - walletStates[lastCall.address].lastStateChangeTime >= 30
    /\ Len(notifications[lastCall.address]) = 1

----------------------------------------------------------------------------
(* Properties of the rate limiter and the fetcher *)

\* C7: under any interleaving of concurrent fetch tasks, no key is used for two
\* outbound calls closer together than RATE_LIMIT_DELAY, for any pool size.
C7_KeySpacing ==
    \A k \in DOMAIN keyUse :
        \A i \in 1..(Len(keyUse[k]) - 1) :
            keyUse[k][i + 1] - keyUse[k][i] >= RATE_LIMIT_DELAY

\* the fetch tasks that have been started
Started == {t \in DOMAIN tasks : tasks[t].pc # "idle"}

\* the fetch tasks whose request has gone out
Issued == {t \in DOMAIN tasks : tasks[t].pc \in {"inflight", "done"}}

\* C8: with all N keys idle for at least the spacing, N fetch tasks that
\* request a key at the same time each get a distinct key and none of them is
\* delayed by the rate limiter.
C8_NoDelayWhenIdle ==
    ( /\ Cardinality(Started) = numKeys
      /\ \A t \in Started : tasks[t].startedAt = StartMs )
    => /\ \A t \in Started : ~tasks[t].delayed
       /\ \A t, u \in Started \cap Issued : t # u => tasks[t].key # tasks[u].key

\* the transactions of a response whose recipient is the tracked address 0xab,
\* in either spelling
ToTracked(response) == SelectSeq(response, LAMBDA tx : tx.to \in {"0xab", "0xAB"})

\* C9: against an upstream that fails k times (0 <= k <= 3) and then succeeds,
\* the call does not give up, returns the recipient-filtered result of the
\* successful response, and returns no sooner than baseDelay * (1 + ... + k)
\* after it was called.
C9_RetryThenSuccess ==
    \A t \in DOMAIN tasks :
        /\ (tasks[t].pc = "done" /\ tasks[t].last = "error") => tasks[t].fails > 3
        /\ (tasks[t].pc = "done" /\ tasks[t].last = "ok")
           => /\ tasks[t].fails <= 3
              /\ tasks[t].outcome = "returned"
              /\ tasks[t].result = ToTracked(tasks[t].response)
              /\ tasks[t].doneAt - tasks[t].startedAt
                    >= 1000 * ((tasks[t].fails * (tasks[t].fails + 1)) \div 2)

\* two failures, then a response of both kinds of transaction: the filtered
\* result came back 3000 ms or more after the call
C9_Witness ==
    \E t \in DOMAIN tasks :
        /\ tasks[t].pc = "done"
        /\ tasks[t].last = "ok"
        /\ tasks[t].fails = 2
        /\ Len(tasks[t].response) = 2
        /\ Len(tasks[t].result) = 1
        /\ tasks[t].doneAt - tasks[t].startedAt >= 3000

\* what C10 says of every state of a call
C10_Bounded ==
    \A t \in DOMAIN tasks :
        /\ tasks[t].retryCount <= 3
        /\ Len(tasks[t].delays) = tasks[t].retryCount
              + (IF tasks[t].pc = "backoff" THEN 1 ELSE 0)
        /\ \A i \in 1..Len(tasks[t].delays) : tasks[t].delays[i] = i * 1000
        /\ tasks[t].outcome # "raised"
        /\ (tasks[t].pc = "done" /\ tasks[t].last = "error")
           => /\ tasks[t].result = << >>
              /\ tasks[t].outcome = "returned"
              /\ tasks[t].retryCount = 3

----------------------------------------------------------------------------
(* Properties of a tick: chain height, fetches, classification loop *)

\* lastTxBlock of every WalletState there is
KnownBlocks == {walletStates[a].lastTxBlock : a \in DOMAIN walletStates}

\* what C11 says of the value returned after the retries are exhausted
C11_FallbackValue ==
    /\ FallbackBlock(walletStates) > 0
    /\ (\E b \in KnownBlocks : b > 0)
       => /\ FallbackBlock(walletStates) \in KnownBlocks
          /\ \A b \in KnownBlocks : b <= FallbackBlock(walletStates)
    /\ (\A b \in KnownBlocks : b <= 0) => FallbackBlock(walletStates) = 24000000

\* C11: when getCurrentBlockNumber exhausts its retries it does not raise but
\* returns the largest lastTxBlock of the WalletStates if one is positive and
\* 24000000 otherwise, a positive integer, and it modifies no WalletState.
C11_FallbackHeight ==
    /\ []C11_FallbackValue
    /\ [][\A k \in DOMAIN ticks :
            (ticks[k].pc = "height" /\ ticks'[k].source = "fallback")
            => /\ ticks'[k].currentBlock > 0
               /\ ticks'[k].pc = "fetching"
               /\ walletStates' = walletStates]_vars

\* a run got its height from the fallback while WalletStates with a positive
\* lastTxBlock existed, and went on to fetch
C11_Witness ==
    \E k \in DOMAIN ticks :
        /\ ticks[k].source = "fallback"
        /\ ticks[k].pc = "fetching"
        /\ ticks[k].currentBlock = 102
        /\ Cardinality(DOMAIN walletStates) = 2

\* C12: within one run of monitorWalletBatch the chain height is obtained once,
\* before any classification, and every address the run classifies is
\* classified against that value, also while other runs are in progress.
C12_OneHeightPerTick ==
    \A k \in DOMAIN ticks :
        /\ ticks[k].heightCalls <= 1
        /\ ticks[k].pc \in {"idle", "height"}
           => ticks[k].classified = {} /\ ticks[k].used = {}
        /\ ticks[k].classified # {}
           => /\ ticks[k].heightCalls = 1
              /\ ticks[k].source # "none"
              /\ ticks[k].used = {ticks[k].currentBlock}

\* two runs in progress at once, each waiting for the sink after a
\* classification, the second having classified both addresses, with
\* different heights
C12_Witness ==
    /\ ticks[1].pc = "sending"
    /\ ticks[2].pc = "sending"
    /\ ticks[1].classified # {}
    /\ ticks[2].classified = Addresses
    /\ ticks[1].currentBlock # ticks[2].currentBlock

\* the addresses a run has gone past in its loop
Passed(k) == {AddressList[i] : i \in 1..(ticks[k].next - 1)}

\* of the addresses a run has gone past, those with a non-empty result are
\* the classified ones, and a run that ends after its fetches has gone past all
C13_AllOthersClassified ==
    \A k \in DOMAIN ticks :
        /\ ticks[k].classified = {a \in Passed(k) : ticks[k].results[a] # << >>}
        /\ (ticks[k].pc = "done" /\ ticks[k].currentBlock # 0)
           => Passed(k) = Addresses

\* a step of a run over address a: with an empty result nothing of a changes,
\* otherwise a is classified on its own state, its own result and the height
\* of the run, whatever the results of the other addresses are
C13_StepIsolated(k, a) ==
    LET transactions == ticks'[k].results[a]
        r == IsSpamActivity(EntryState(a), transactions, ticks'[k].currentBlock, now)
    IN  IF transactions = << >>
        THEN /\ (a \in DOMAIN walletStates') = (a \in DOMAIN walletStates)
             /\ a \in DOMAIN walletStates => walletStates'[a] = walletStates[a]
             /\ notifications'[a] = notifications[a]
        ELSE /\ walletStates'[a] = r.state
             /\ Len(notifications'[a]) = Len(notifications[a])
                    + (IF r.shouldNotify THEN 1 ELSE 0)

\* C13: in a tick where the fetch of one address yields an empty result after
\* failing, every other address with a non-empty result is still classified,
\* with the outcome and update it has on its own, and the WalletState of the
\* failing address is left as it was.
C13_FailureIsolated ==
    /\ []C13_AllOthersClassified
    /\ [][\A k \in DOMAIN ticks :
            \A i \in 1..Len(AddressList) :
                (ticks[k].next <= i /\ i < ticks'[k].next /\ ticks'[k].pc # "idle")
                => C13_StepIsolated(k, AddressList[i])]_vars

\* a run has ended in which the fetch of 0xaa gave nothing, 0xaa has no
\* WalletState, and 0xbb was classified and its burst notified
C13_Witness ==
    \E k \in DOMAIN ticks :
        /\ ticks[k].pc = "done"
        /\ ticks[k].results["0xaa"] = << >>
        /\ ticks[k].classified = {"0xbb"}
        /\ "0xaa" \notin DOMAIN walletStates
        /\ "0xbb" \in DOMAIN walletStates
        /\ walletStates["0xbb"].isSpamming
        /\ Len(notifications["0xbb"]) = 1

\* the fetches of a run have been started
FetchStarted(k) ==
    \/ ticks[k].pc \in {"fetching", "sending"}
    \/ ticks[k].pc = "done" /\ ticks[k].currentBlock # 0

\* C14: ticks do not overlap for an address: the fetch of a later run for an
\* address is never started before every earlier run has completed its
\* classification of that address.
C14_TicksDoNotOverlap ==
    \A k, j \in DOMAIN ticks :
        (k < j /\ FetchStarted(j))
        => \A a \in Addresses : a \in Passed(k) \/ ticks[k].pc = "done"

----------------------------------------------------------------------------
(* Properties of the WalletState records *)

\* a call for an address without WalletState works on the initial values and
\* leaves one WalletState for it; a call for an address with a WalletState
\* works on that one
C15_EntryState ==
    \A a \in Addresses, txs \in NonEmptyWindows, h \in Heights :
        /\ DOMAIN WalletStatesAfter(a, txs, h) = DOMAIN walletStates \cup {a}
        /\ a \notin DOMAIN walletStates
           => Classify(a, txs, h) =
                 IsSpamActivity([isSpamming |-> FALSE, lastTxBlock |-> 0,
                                 lastNotifiedTxHash |-> 0, lastStateChangeTime |-> 0],
                                txs, h, now)
        /\ a \in DOMAIN walletStates
           => Classify(a, txs, h) = IsSpamActivity(walletStates[a], txs, h, now)

\* C15: a WalletState is created by the first classification call for its
\* address, with isSpamming false, lastTxBlock 0, lastNotifiedTxHash empty and
\* lastStateChangeTime 0; there is one per lowercased address from then on,
\* and nothing deletes it or makes it anew.
C15_Lifecycle ==
    /\ [](/\ DOMAIN walletStates \subseteq Addresses
          /\ \A a \in DOMAIN walletStates : Lower(a) = a
          /\ C15_EntryState)
    /\ [][DOMAIN walletStates \subseteq DOMAIN walletStates']_vars

\* a later call for an address that has been notified before moved its
\* lastTxBlock and kept the hash and the time of that notification
C15_Witness ==
    /\ lastCall.exit = "block"
    /\ lastCall.address \in DOMAIN walletStates
    /\ walletStates[lastCall.address].lastNotifiedTxHash # 0
    /\ walletStates[lastCall.address].lastStateChangeTime > 0

\* C16: lastStateChangeTime of an address never decreases: no classification
\* call stores a value smaller than the one stored, whatever the window, the
\* height and the reading of the wall clock.
C16_ChangeTimeMonotonic ==
    \A a \in Addresses, txs \in NonEmptyWindows, h \in Heights :
        StateAfter(a, txs, h).lastStateChangeTime >= EntryState(a).lastStateChangeTime

\* a call made after the wall clock was set back behind the time of the
\* latest state change
C16_Witness ==
    /\ lastCall.address \in DOMAIN walletStates
    /\ lastCall.exit = "hysteresis"
    /\ now < walletStates[lastCall.address].lastStateChangeTime

\* C17: a call that has passed the empty-window, de-duplication and
\* hysteresis guards and fires no transition, Idle or Bursting, sets
\* lastTxBlock to the block of the top transaction, changes no other field
\* and emits nothing.
C17_BlockTracked ==
    \A a \in Addresses, txs \in NonEmptyWindows, h \in Heights :
        LET s == EntryState(a)
            top == RecentTxs(txs)[1]
        IN  ( /\ top.hash # s.lastNotifiedTxHash
              /\ now - s.lastStateChangeTime >= 30
              /\ ~Classify(a, txs, h).shouldNotify )
            => /\ StateAfter(a, txs, h) = [s EXCEPT !.lastTxBlock = top.block]
               /\ EmitsNothing(a, txs, h)

\* the WalletState of an address as a whole is the outcome of its latest
\* transition: notified hash, change time and flag agree with what the sink
\* was handed for it
C18_WholeRecords ==
    \A a \in DOMAIN walletStates :
        LET s == walletStates[a]
            n == notifications[a]
        IN  /\ (s.lastNotifiedTxHash = 0) = (n = << >>)
            /\ (s.lastStateChangeTime = 0) = (n = << >>)
            /\ s.isSpamming = (Len(n) % 2 = 1)
            /\ n # << >> => n[Len(n)].hash = s.lastNotifiedTxHash
            /\ s.lastTxBlock > 0

\* the WalletState of address b differs after the step
Written(b) ==
    \/ (b \in DOMAIN walletStates') # (b \in DOMAIN walletStates)
    \/ b \in DOMAIN walletStates /\ walletStates'[b] # walletStates[b]

\* the step classifies the i-th address for run k
Classifies(k, i) ==
    /\ ticks[k].next <= i
    /\ i < ticks'[k].next
    /\ ticks'[k].results[AddressList[i]] # << >>

\* C18: a classification call for an address reads and writes the WalletState
\* of that address only, under any interleaving of runs, and its field
\* updates are one atomic step: no state shows a partly updated WalletState.
C18_OwnStateOnly ==
    /\ []C18_WholeRecords
    /\ [][\A i \in 1..Len(AddressList) :
            Written(AddressList[i])
            => \E k \in DOMAIN ticks :
                  /\ Classifies(k, i)
                  /\ walletStates'[AddressList[i]] =
                        IsSpamActivity(EntryState(AddressList[i]),
                                       ticks'[k].results[AddressList[i]],
                                       ticks'[k].currentBlock, now).state]_vars

\* the first run waits for the sink after classifying 0xaa into a burst;
\* meanwhile the second run went through both addresses, and 0xbb, classified
\* without a transition, has only its lastTxBlock set
C18_Witness ==
    /\ ticks[1].pc = "sending"
    /\ ticks[1].next = 2
    /\ ticks[2].pc = "done"
    /\ ticks[2].classified = Addresses
    /\ DOMAIN walletStates = Addresses
    /\ walletStates["0xaa"].isSpamming
    /\ ~walletStates["0xbb"].isSpamming
    /\ walletStates["0xbb"].lastNotifiedTxHash = 0

----------------------------------------------------------------------------
(* Properties of the key rotation and of the notifications *)

\* C19: in every acquisition, under any interleaving of fetch tasks, the key
\* whose timestamp rateLimitedDelay checked and stored is the key
\* getNextApiKey then returned for the outbound call of that task.
C19_CheckedKeyIsUsedKey ==
    \A t \in Issued : tasks[t].keyIndex = tasks[t].key

\* C20: every notification describes the triggering transaction: the hash
\* handed to the sink is the lastNotifiedTxHash recorded for that transition
\* and the message is Started for 'start' and Stopped for 'stop'; the state
\* is updated before the delivery settles, whatever its outcome, and no
\* notification is handed over a second time.
C20_NotificationMatchesState ==
    /\ \A a \in Addresses :
          LET n == notifications[a] IN
          /\ n # << >>
             => /\ a \in DOMAIN walletStates
                /\ n[Len(n)].hash = walletStates[a].lastNotifiedTxHash
                /\ n[Len(n)].message =
                      (IF walletStates[a].isSpamming THEN "Started" ELSE "Stopped")
          /\ \A i \in 1..(Len(n) - 1) : n[i].message # n[i + 1].message
    /\ \A k \in DOMAIN ticks :
          ticks[k].pc = "sending"
          => /\ AddressList[ticks[k].next - 1] \in ticks[k].classified
             /\ notifications[AddressList[ticks[k].next - 1]] # << >>

\* a run is done after the sink was handed the start of a burst for the
\* newest of three transactions, and later runs handed it the stop
C20_Witness ==
    /\ ticks[1].pc = "done"
    /\ Len(notifications["0xaa"]) = 2
    /\ notifications["0xaa"][1] = [hash |-> 3, message |-> "Started"]
    /\ notifications["0xaa"][2].message = "Stopped"
    /\ walletStates["0xaa"].lastNotifiedTxHash = notifications["0xaa"][2].hash

\* C21: in every classification call of a tick the chain height used is at
\* least the block of the top transaction classified, so that
\* blocksSinceLastTx is never negative, also when the height is the fallback
\* of the exhausted retries.
C21_HeightNotBelowTop ==
    \A k \in DOMAIN ticks :
        \A a \in ticks[k].classified :
            \A h \in ticks[k].used :
                h - RecentTxs(ticks[k].results[a])[1].block >= 0

====
